---- MODULE Spec2Model ----
(***************************************************************************)
(* Model of lib/rules/no-invalid-v-model.js (eslint-plugin-vue) and of the *)
(* sibling rule valid-v-html exercised by tests/lib/rules/valid-v-html.js. *)
(*                                                                         *)
(* The state is the parsed template (a sequence of directive attribute     *)
(* nodes, each with its host element and the element's parent chain), the  *)
(* list of reports the rule context has received, and the position of one  *)
(* getVariable call unrolled loop iteration by loop iteration.             *)
(***************************************************************************)
EXTENDS Integers, Sequences, FiniteSets

VARIABLES nodes, visited, reports, lkName, lkNode, lkResult, lkPc

vars == <<nodes, visited, reports, lkName, lkNode, lkResult, lkPc>>

(***************************************************************************)
(* Bounds of the model.                                                    *)
(***************************************************************************)
MaxModifiers == 2
MaxDepth == 2
NumBindings == 2

(***************************************************************************)
(* AST values.  null / undefined is the record Null.                       *)
(***************************************************************************)
Null == [type |-> "null"]

TagNames == {"input", "select", "textarea", "div", "keep-alive", "slot",
             "transition", "transition-group", "my-component"}

ModifierNames == {"lazy", "number", "trim", "aaa", "bbb"}

VarNames == {"x", "y"}

RECURSIVE SeqsUpTo(_, _)
SeqsUpTo(S, n) ==
    IF n = 0 THEN {<<>>}
    ELSE LET shorter == SeqsUpTo(S, n - 1)
         IN  shorter \cup {Append(s, e) : s \in shorter, e \in S}

\* A variable declared by a node (the v-for iteration variables).
Variable(n) == [id |-> [name |-> n]]

\* `variables` of a node of the parent chain: absent, or an array.
NoVariables == [defined |-> FALSE, list |-> <<>>]
Variables(list) == [defined |-> TRUE, list |-> list]

VariablesChoices ==
    {NoVariables, Variables(<<>>), Variables(<<Variable("x")>>),
     Variables(<<Variable("y"), Variable("x")>>)}

\* The parent chain of an element, the element itself first: chain[k+1] is
\* chain[k].parent and the last node's parent is null.
ChainNodes == {[variables |-> v] : v \in VariablesChoices}

Chains == SeqsUpTo(ChainNodes, MaxDepth) \ {<<>>}

\* Attributes of the host's start tag, as far as the rule looks at them.
PlainAttribute(n, v) == [directive |-> FALSE, key |-> [name |-> n, argument |-> Null], value |-> v]
BindDirective(arg) == [directive |-> TRUE, key |-> [name |-> "bind", argument |-> [name |-> arg]], value |-> "t"]

AttributeLists ==
    {<<>>, <<PlainAttribute("type", "file")>>, <<PlainAttribute("type", "text")>>,
     <<BindDirective("type")>>,
     <<BindDirective("type"), PlainAttribute("type", "file")>>}

\* A reference of the bound expression, with the back link id.parent.
Reference(n, parentType) == [id |-> [name |-> n, parent |-> [type |-> parentType]]]

Expression(t) == [type |-> t]

Container(expression, references) ==
    [type |-> "VExpressionContainer", expression |-> expression, references |-> references]

\* The attribute values the parser produces: no ="..." at all, ="", x, x.p,
\* x[y], x(y), a literal.
AttributeValues ==
    {Null, Container(Null, <<>>), Container(Expression("Literal"), <<>>)}
    \cup {Container(Expression("Identifier"), <<Reference(n, "VExpressionContainer")>>) : n \in VarNames}
    \cup {Container(Expression("MemberExpression"), <<Reference(n, "MemberExpression")>>) : n \in VarNames}
    \cup {Container(Expression("MemberExpression"),
                    <<Reference(n, "MemberExpression"), Reference(m, "MemberExpression")>>) :
              n \in {"x"}, m \in VarNames}
    \cup {Container(Expression("CallExpression"),
                    <<Reference(n, "CallExpression"), Reference(m, "CallExpression")>>) :
              n \in {"y"}, m \in VarNames}

Arguments == {Null, [name |-> "aaa"]}

\* name, custom and attributes of a host element; Element adds the parent chain.
HeadsFull == [name : TagNames, custom : BOOLEAN, attributes : AttributeLists]

StartTag(name, custom, attributes) == [name |-> name, custom |-> custom, attributes |-> attributes]

HeadsSmall ==
    {StartTag("input", FALSE, <<>>),
     StartTag("input", FALSE, <<BindDirective("type"), PlainAttribute("type", "file")>>),
     StartTag("div", FALSE, <<BindDirective("type"), PlainAttribute("type", "file")>>),
     StartTag("keep-alive", TRUE, <<>>),
     StartTag("my-component", TRUE, <<>>)}

Element(head, chain) ==
    [name |-> head.name, custom |-> head.custom, attributes |-> head.attributes, chain |-> chain]

ChainsSmall ==
    {<<[variables |-> NoVariables]>>,
     <<[variables |-> Variables(<<Variable("x")>>)]>>}

Key(name, argument, modifiers) == [name |-> name, argument |-> argument, modifiers |-> modifiers]

KeysFull == [argument : Arguments, modifiers : SeqsUpTo(ModifierNames, MaxModifiers)]

KeysSmall ==
    {[argument |-> Null, modifiers |-> <<>>],
     [argument |-> Null, modifiers |-> <<"lazy">>],
     [argument |-> [name |-> "aaa"], modifiers |-> <<"aaa">>]}

ValuesSmall ==
    {Null, Container(Expression("Literal"), <<>>),
     Container(Expression("Identifier"), <<Reference("x", "VExpressionContainer")>>),
     Container(Expression("MemberExpression"), <<Reference("x", "MemberExpression")>>)}

\* The directive attribute nodes (VAttribute, directive=true) of the given
\* directive name.
DirectiveNodes(name, heads, keys, values, chains) ==
    {[key |-> Key(name, k.argument, k.modifiers), value |-> v, element |-> Element(h, c)] :
        h \in heads, k \in keys, v \in values, c \in chains}

\* Every host with a few bindings, every key on a few hosts, every value
\* under every parent chain on a few hosts.
ModelNodes ==
    DirectiveNodes("model", HeadsFull, KeysSmall, ValuesSmall, ChainsSmall)
    \cup DirectiveNodes("model", HeadsSmall, KeysFull, ValuesSmall, ChainsSmall)
    \cup DirectiveNodes("model", HeadsSmall, KeysSmall, AttributeValues, Chains)

HtmlNodes ==
    DirectiveNodes("html", HeadsSmall, KeysFull, ValuesSmall, ChainsSmall)

\* The nodes of the templates with several bindings.
SharedNodes ==
    DirectiveNodes("model",
                   {StartTag("input", FALSE, <<PlainAttribute("type", "file")>>),
                    StartTag("div", FALSE, <<>>)},
                   {[argument |-> Null, modifiers |-> <<>>],
                    [argument |-> [name |-> "aaa"], modifiers |-> <<"aaa", "trim">>]},
                   {Null, Container(Expression("Identifier"), <<Reference("x", "VExpressionContainer")>>)},
                   {<<[variables |-> Variables(<<Variable("x")>>)]>>})
    \cup DirectiveNodes("html", {StartTag("div", FALSE, <<>>)},
                        {[argument |-> Null, modifiers |-> <<"aaa">>]},
                        {Null}, {<<[variables |-> NoVariables]>>})

RECURSIVE SeqsOfLen(_, _)
SeqsOfLen(S, n) ==
    IF n = 0 THEN {<<>>}
    ELSE {Append(s, e) : s \in SeqsOfLen(S, n - 1), e \in S}

Templates ==
    {<<n>> : n \in ModelNodes \cup HtmlNodes} \cup SeqsOfLen(SharedNodes, NumBindings)

(***************************************************************************)
(* lib/utils: the predicates the rule calls, as its specification          *)
(* describes them.                                                         *)
(***************************************************************************)
isCustomComponent(node) == node.custom

hasDirective(node, name, argument) ==
    \E i \in DOMAIN node.attributes :
        /\ node.attributes[i].directive
        /\ node.attributes[i].key.name = name
        /\ node.attributes[i].key.argument = [name |-> argument]

hasAttribute(node, name, value) ==
    \E i \in DOMAIN node.attributes :
        /\ ~node.attributes[i].directive
        /\ node.attributes[i].key.name = name
        /\ node.attributes[i].value = value

hasAttributeValue(node) == node.value # Null

(***************************************************************************)
(* Helpers of no-invalid-v-model.js.                                       *)
(***************************************************************************)
\* The allow-set without trim.
VALID_MODIFIERS_NoTrim == {"lazy", "number"}

VALID_MODIFIERS == {"lazy", "number", "trim"}

\* isValidElement without the exclusion of <slot>.
isValidElement_SlotAllowed(node) ==
    LET name == node.name
    IN  \/ name = "input"
        \/ name = "select"
        \/ name = "textarea"
        \/ /\ name # "keep-alive"
           /\ name # "transition"
           /\ name # "transition-group"
           /\ isCustomComponent(node)

isValidElement(node) ==
    LET name == node.name
    IN  \/ name = "input"
        \/ name = "select"
        \/ name = "textarea"
        \/ /\ name # "keep-alive"
           /\ name # "slot"
           /\ name # "transition"
           /\ name # "transition-group"
           /\ isCustomComponent(node)

\* isLhs accepting identifiers only.
isLhs_IdentifierOnly(node) ==
    /\ node # Null
    /\ node.type = "Identifier"

isLhs(node) ==
    /\ node # Null
    /\ \/ node.type = "Identifier"
       \/ node.type = "MemberExpression"

\* variables.find(v => v.id.name === name): the index of the first match, 0
\* when there is none.
FindIndex(list, name) ==
    LET hits == {j \in DOMAIN list : list[j].id.name = name}
    IN  IF hits = {} THEN 0 ELSE CHOOSE j \in hits : \A h \in hits : j <= h

\* The variable object found at position j of the array of chain node k.
VariableAt(k, j) == [node |-> k, index |-> j]

\* The loop looking at the chain from its outer end.
FindInNode_OuterFirst(name, chain, k) ==
    LET variables == chain[Len(chain) + 1 - k].variables
        j == IF variables.defined THEN FindIndex(variables.list, name) ELSE 0
    IN  IF j # 0 THEN VariableAt(Len(chain) + 1 - k, j) ELSE Null

\* One iteration of the while loop of getVariable at chain node k: the
\* variable found there, or Null.
FindInNode(name, chain, k) ==
    LET variables == chain[k].variables
        j == IF variables.defined THEN FindIndex(variables.list, name) ELSE 0
    IN  IF j # 0 THEN VariableAt(k, j) ELSE Null

RECURSIVE getVariableFrom(_, _, _)
getVariableFrom(name, chain, k) ==
    IF k > Len(chain) THEN Null
    ELSE LET variable == FindInNode(name, chain, k)
         IN  IF variable # Null THEN variable
             ELSE getVariableFrom(name, chain, k + 1)

getVariable(name, leafNode) == getVariableFrom(name, leafNode.chain, 1)

(***************************************************************************)
(* The reports of the handler for VAttribute[directive=true]               *)
(* [key.name='model'].  i identifies the attribute node, node is its       *)
(* content; node.element is node.parent.parent.                            *)
(***************************************************************************)
MsgUnsupportedHost == "'v-model' directives aren't supported on <{{name}}> elements."
MsgDynamicInputType == "'v-model' directives don't support dynamic input types."
MsgFileInputType == "'v-model' directives don't support 'file' input type."
MsgUnexpectedArgument == "'v-model' directives require no argument."
MsgUnsupportedModifier == "'v-model' directives don't support the modifier '{{name}}'."
MsgMissingValue == "'v-model' directives require that attribute value."
MsgInvalidLhs == "'v-model' directives require the attribute value which is valid as LHS."
MsgSelfAliasing == "'v-model' directives cannot update the iteration variable 'x' itself."

Report(i, message, data) == [node |-> i, message |-> message, data |-> data]

ReportHost(i, node) ==
    LET element == node.element
        name == element.name
    IN  IF ~isValidElement(element)
        THEN <<Report(i, MsgUnsupportedHost, [name |-> name])>>
        ELSE <<>>

ReportInputType(i, node) ==
    LET element == node.element
        name == element.name
    IN  IF name = "input"
        THEN (IF hasDirective(element, "bind", "type")
              THEN <<Report(i, MsgDynamicInputType, [name |-> name])>>
              ELSE <<>>)
             \o
             (IF hasAttribute(element, "type", "file")
              THEN <<Report(i, MsgFileInputType, [name |-> name])>>
              ELSE <<>>)
        ELSE <<>>

ReportArgument(i, node) ==
    IF node.key.argument # Null
    THEN <<Report(i, MsgUnexpectedArgument, Null)>>
    ELSE <<>>

ReportModifiers(i, node) ==
    LET invalid(modifier) == modifier \notin VALID_MODIFIERS
        make(modifier) == Report(i, MsgUnsupportedModifier, [name |-> modifier])
        kept == SelectSeq(node.key.modifiers, invalid)
    IN  [k \in 1..Len(kept) |-> make(kept[k])]

ReportMissingValue(i, node) ==
    IF ~hasAttributeValue(node)
    THEN <<Report(i, MsgMissingValue, Null)>>
    ELSE <<>>

\* The LHS check without the guard on node.value.
ReportLhs_NoValueGuard(i, node) ==
    IF ~isLhs(IF node.value # Null THEN node.value.expression ELSE Null)
    THEN <<Report(i, MsgInvalidLhs, Null)>>
    ELSE <<>>

ReportLhs(i, node) ==
    IF node.value # Null /\ ~isLhs(node.value.expression)
    THEN <<Report(i, MsgInvalidLhs, Null)>>
    ELSE <<>>

\* The aliasing check without the skip of member expression operands.
ReportAliasing_NoMemberSkip(i, node) ==
    LET element == node.element
        written(reference) == getVariable(reference.id.name, element) # Null
        make(reference) == Report(i, MsgSelfAliasing, Null)
        kept == SelectSeq(node.value.references, written)
    IN  IF node.value # Null
        THEN [k \in 1..Len(kept) |-> make(kept[k])]
        ELSE <<>>

ReportAliasing(i, node) ==
    LET element == node.element
        written(reference) ==
            /\ reference.id.parent.type # "MemberExpression"
            /\ getVariable(reference.id.name, element) # Null
        make(reference) == Report(i, MsgSelfAliasing, Null)
        kept == SelectSeq(node.value.references, written)
    IN  IF node.value # Null
        THEN [k \in 1..Len(kept) |-> make(kept[k])]
        ELSE <<>>

\* The handler returning after the first check that reported.
VModelReports_FailFast(i, node) ==
    LET checks == <<ReportHost(i, node), ReportInputType(i, node), ReportArgument(i, node),
                    ReportModifiers(i, node), ReportMissingValue(i, node),
                    ReportLhs(i, node), ReportAliasing(i, node)>>
        failed == {c \in DOMAIN checks : checks[c] # <<>>}
    IN  IF failed = {} THEN <<>>
        ELSE checks[CHOOSE c \in failed : \A d \in failed : c <= d]

VModelReports(i, node) ==
    ReportHost(i, node) \o ReportInputType(i, node) \o ReportArgument(i, node)
    \o ReportModifiers(i, node) \o ReportMissingValue(i, node)
    \o ReportLhs(i, node) \o ReportAliasing(i, node)

(***************************************************************************)
(* The template body visitor calls the handler once for every v-model      *)
(* attribute node, context.report appends to the reports of the run.       *)
(***************************************************************************)
\* The handler leaving out the messages the run has reported before.
VModelHandler_ReportOnce(i) ==
    /\ i \in DOMAIN nodes
    /\ i \notin visited
    /\ nodes[i].key.name = "model"
    /\ visited' = visited \cup {i}
    /\ LET seen(r) == \E k \in DOMAIN reports : reports[k].message = r.message
           fresh(r) == ~seen(r)
       IN  reports' = reports \o SelectSeq(VModelReports(i, nodes[i]), fresh)
    /\ UNCHANGED <<nodes, lkName, lkNode, lkResult, lkPc>>

VModelHandler(i) ==
    /\ i \in DOMAIN nodes
    /\ i \notin visited
    /\ nodes[i].key.name = "model"
    /\ visited' = visited \cup {i}
    /\ reports' = reports \o VModelReports(i, nodes[i])
    /\ UNCHANGED <<nodes, lkName, lkNode, lkResult, lkPc>>

\* valid-v-html: the argument, modifier and value checks only, as the
\* specification of the rule describes them; the messages are those its
\* tests expect.
MsgHtmlArgument == "'v-html' directives require no argument."
MsgHtmlModifier == "'v-html' directives require no modifier."
MsgHtmlValue == "'v-html' directives require that attribute value."

\* One modifier report per modifier.
VHtmlReports_PerModifier(i, node) ==
    LET any(modifier) == TRUE
        make(modifier) == Report(i, MsgHtmlModifier, Null)
        kept == SelectSeq(node.key.modifiers, any)
    IN  (IF node.key.argument # Null THEN <<Report(i, MsgHtmlArgument, Null)>> ELSE <<>>)
        \o [k \in 1..Len(kept) |-> make(kept[k])]
        \o (IF ~hasAttributeValue(node) THEN <<Report(i, MsgHtmlValue, Null)>> ELSE <<>>)

VHtmlReports(i, node) ==
    (IF node.key.argument # Null THEN <<Report(i, MsgHtmlArgument, Null)>> ELSE <<>>)
    \o (IF Len(node.key.modifiers) > 0 THEN <<Report(i, MsgHtmlModifier, Null)>> ELSE <<>>)
    \o (IF ~hasAttributeValue(node) THEN <<Report(i, MsgHtmlValue, Null)>> ELSE <<>>)

VHtmlHandler(i) ==
    /\ i \in DOMAIN nodes
    /\ i \notin visited
    /\ nodes[i].key.name = "html"
    /\ visited' = visited \cup {i}
    /\ reports' = reports \o VHtmlReports(i, nodes[i])
    /\ UNCHANGED <<nodes, lkName, lkNode, lkResult, lkPc>>

LookupIdle ==
    /\ lkName = "" /\ lkNode = 0 /\ lkResult = Null /\ lkPc = "idle"

Init ==
    /\ nodes \in Templates
    /\ visited = {}
    /\ reports = <<>>
    /\ LookupIdle

Next ==
    \/ \E i \in DOMAIN nodes : VModelHandler(i)
    \/ \E i \in DOMAIN nodes : VHtmlHandler(i)

Spec == Init /\ [][Next]_vars

(***************************************************************************)
(* One call getVariable(name, element), a loop iteration per step.  lkNode *)
(* is the position of `node` in the parent chain of the element, and       *)
(* Len(chain) + 1 stands for null.                                         *)
(***************************************************************************)
LookupNames == VarNames \cup {"z"}

LookupChain == nodes[1].element.chain

LookupCall(name) ==
    /\ lkPc = "idle"
    /\ lkName' = name
    /\ lkNode' = 1
    /\ lkPc' = "loop"
    /\ UNCHANGED <<nodes, visited, reports, lkResult>>

LookupStep ==
    /\ lkPc = "loop"
    /\ IF lkNode > Len(LookupChain)
       THEN /\ lkResult' = Null
            /\ lkPc' = "done"
            /\ UNCHANGED lkNode
       ELSE LET variable == FindInNode(lkName, LookupChain, lkNode)
            IN  IF variable # Null
                THEN /\ lkResult' = variable
                     /\ lkPc' = "done"
                     /\ UNCHANGED lkNode
                ELSE /\ lkNode' = lkNode + 1
                     /\ UNCHANGED <<lkResult, lkPc>>
    /\ UNCHANGED <<nodes, visited, reports, lkName>>

InitLookup ==
    /\ nodes \in {<<n>> : n \in DirectiveNodes("model", {StartTag("input", FALSE, <<>>)},
                                                {[argument |-> Null, modifiers |-> <<>>]},
                                                {Null}, Chains)}
    /\ visited = {}
    /\ reports = <<>>
    /\ LookupIdle

NextLookup ==
    \/ \E name \in LookupNames : LookupCall(name)
    \/ LookupStep

SpecLookup == InitLookup /\ [][NextLookup]_vars /\ WF_vars(LookupStep)

(***************************************************************************)
(* Properties.  They are stated over the reports of the run and the AST,   *)
(* in the words of the specification, not through the handler's helpers.   *)
(***************************************************************************)
ReportsOf(i) ==
    LET mine(r) == r.node = i
    IN  SelectSeq(reports, mine)

Has(i, message) ==
    \E k \in DOMAIN reports : reports[k].node = i /\ reports[k].message = message

CountOf(i, message) ==
    Cardinality({k \in DOMAIN reports : reports[k].node = i /\ reports[k].message = message})

\* The handler has run on the v-model binding i.
Checked(i) == i \in visited /\ nodes[i].key.name = "model"

CheckedHtml(i) == i \in visited /\ nodes[i].key.name = "html"

NotEligible(element) ==
    /\ element.name \notin {"input", "select", "textarea"}
    /\ \/ ~element.custom
       \/ element.name \in {"keep-alive", "slot", "transition", "transition-group"}

TypeIsBound(element) ==
    \E a \in DOMAIN element.attributes :
        element.attributes[a] = BindDirective("type")

TypeIsFile(element) ==
    \E a \in DOMAIN element.attributes :
        element.attributes[a] = PlainAttribute("type", "file")

IllegalModifiers(node) ==
    LET illegal(m) == m \notin {"lazy", "number", "trim"}
    IN  SelectSeq(node.key.modifiers, illegal)

IsTarget(node) ==
    /\ node.value # Null
    /\ node.value.expression.type \in {"Identifier", "MemberExpression"}

\* Some node of the parent chain declares a variable of the name.
BindingNodes(name, chain) ==
    {k \in DOMAIN chain :
        /\ chain[k].variables.defined
        /\ \E j \in DOMAIN chain[k].variables.list : chain[k].variables.list[j].id.name = name}

\* The references of the value that are no operand of a member expression
\* and name a variable of the parent chain.
AliasingReferences(node) ==
    IF node.value = Null THEN {}
    ELSE {k \in DOMAIN node.value.references :
            /\ node.value.references[k].id.parent.type # "MemberExpression"
            /\ BindingNodes(node.value.references[k].id.name, node.element.chain) # {}}

ModifiersReported(i) ==
    LET mine(r) == r.node = i /\ r.message = MsgUnsupportedModifier
        found == SelectSeq(reports, mine)
    IN  [k \in 1..Len(found) |-> found[k].data.name]

\* C1: a v-model binding without a value is reported as missing its value
\* and gets neither the LHS nor the iteration variable report; a binding
\* with a value, the empty string included, is never reported as missing
\* its value, so the two guards agree on every binding.
C1_MissingValueGuard ==
    \A i \in DOMAIN nodes : Checked(i) =>
        /\ nodes[i].value = Null =>
              /\ Has(i, MsgMissingValue)
              /\ ~Has(i, MsgInvalidLhs)
              /\ ~Has(i, MsgSelfAliasing)
        /\ nodes[i].value # Null => ~Has(i, MsgMissingValue)

C1_Witness ==
    \E i \in DOMAIN nodes :
        /\ Checked(i)
        /\ nodes[i].value = Null
        /\ BindingNodes("x", nodes[i].element.chain) # {}
        /\ Has(i, MsgMissingValue)

\* C2: a v-model binding with a value gets one iteration variable report
\* for every reference that is not the operand of a member expression and
\* names a variable declared in the parent chain of the host, and none for
\* the references that are operands of member expressions.
C2_SelfAliasing ==
    \A i \in DOMAIN nodes : (Checked(i) /\ nodes[i].value # Null) =>
        CountOf(i, MsgSelfAliasing) = Cardinality(AliasingReferences(nodes[i]))

C2_Witness ==
    \E i \in DOMAIN nodes :
        /\ Checked(i)
        /\ nodes[i].value # Null
        /\ nodes[i].value.expression.type = "Identifier"
        /\ BindingNodes("x", nodes[i].element.chain) = {2}
        /\ Has(i, MsgSelfAliasing)

\* C3: the modifier reports of a v-model binding name exactly the modifiers
\* outside {lazy, number, trim}, one per occurrence and in the order of the
\* modifiers.
C3_UnsupportedModifiers ==
    \A i \in DOMAIN nodes : Checked(i) =>
        ModifiersReported(i) = IllegalModifiers(nodes[i])

C3_Witness ==
    \E i \in DOMAIN nodes :
        /\ Checked(i)
        /\ nodes[i].key.modifiers = <<"bbb", "aaa">>
        /\ ModifiersReported(i) = <<"bbb", "aaa">>

\* C4: a v-model binding on a host that is not eligible is reported as
\* unsupported with the host's tag name, whatever else the binding holds;
\* on an eligible host it is not.
C4_UnsupportedHost ==
    \A i \in DOMAIN nodes : Checked(i) =>
        IF NotEligible(nodes[i].element)
        THEN \E k \in DOMAIN reports :
                /\ reports[k].node = i
                /\ reports[k].message = MsgUnsupportedHost
                /\ reports[k].data = [name |-> nodes[i].element.name]
        ELSE ~Has(i, MsgUnsupportedHost)

C4_Witness ==
    \E i \in DOMAIN nodes :
        /\ Checked(i)
        /\ nodes[i].element.name = "slot"
        /\ nodes[i].element.custom
        /\ Has(i, MsgUnsupportedHost)

\* C5: a v-model binding with a value gets the LHS report iff the value's
\* expression is neither an identifier nor a member expression.
C5_InvalidLhs ==
    \A i \in DOMAIN nodes : (Checked(i) /\ nodes[i].value # Null) =>
        (Has(i, MsgInvalidLhs) <=>
            nodes[i].value.expression.type \notin {"Identifier", "MemberExpression"})

C5_Witness ==
    \E i \in DOMAIN nodes :
        /\ Checked(i)
        /\ nodes[i].value # Null
        /\ nodes[i].value.expression.type = "CallExpression"
        /\ Has(i, MsgInvalidLhs)

\* C6: a v-model binding gets no report when its host is eligible, an
\* input host has neither a bound nor a file type, there is no argument,
\* every modifier is lazy, number or trim, the value is an identifier or a
\* member expression, and no reference other than a member expression
\* operand names a variable of the parent chain.
C6_NoFindings ==
    \A i \in DOMAIN nodes :
        ( /\ Checked(i)
          /\ ~NotEligible(nodes[i].element)
          /\ nodes[i].element.name = "input" =>
                (~TypeIsBound(nodes[i].element) /\ ~TypeIsFile(nodes[i].element))
          /\ nodes[i].key.argument = Null
          /\ IllegalModifiers(nodes[i]) = <<>>
          /\ IsTarget(nodes[i])
          /\ AliasingReferences(nodes[i]) = {} )
        => ReportsOf(i) = <<>>

C6_Witness ==
    \E i \in DOMAIN nodes :
        /\ Checked(i)
        /\ nodes[i].element.name = "input"
        /\ nodes[i].key.modifiers = <<"lazy">>
        /\ nodes[i].value # Null
        /\ nodes[i].value.expression.type = "MemberExpression"
        /\ BindingNodes("x", nodes[i].element.chain) # {}
        /\ nodes[i].value.references[1].id.name = "x"
        /\ ReportsOf(i) = <<>>

Rank(message) ==
    CASE message = MsgUnsupportedHost -> 1
      [] message = MsgDynamicInputType -> 2
      [] message = MsgFileInputType -> 3
      [] message = MsgUnexpectedArgument -> 4
      [] message = MsgUnsupportedModifier -> 5
      [] message = MsgMissingValue -> 6
      [] message = MsgInvalidLhs -> 7
      [] message = MsgSelfAliasing -> 8
      [] OTHER -> 0

\* C8: every check of a v-model binding reports exactly when its own
\* condition holds, whatever the earlier checks reported, and the reports
\* of the binding come in the order host, dynamic type, file type,
\* argument, modifiers (in their order), missing value, LHS, iteration
\* variable; the two type reports need an input host.
C8_AllChecksInOrder ==
    \A i \in DOMAIN nodes : Checked(i) =>
        LET node == nodes[i]
            mine == ReportsOf(i)
        IN  /\ \A k, l \in DOMAIN mine :
                  k < l => Rank(mine[k].message) <= Rank(mine[l].message)
            /\ \A k \in DOMAIN mine : Rank(mine[k].message) # 0
            /\ CountOf(i, MsgUnsupportedHost) = IF NotEligible(node.element) THEN 1 ELSE 0
            /\ CountOf(i, MsgDynamicInputType) =
                  IF node.element.name = "input" /\ TypeIsBound(node.element) THEN 1 ELSE 0
            /\ CountOf(i, MsgFileInputType) =
                  IF node.element.name = "input" /\ TypeIsFile(node.element) THEN 1 ELSE 0
            /\ CountOf(i, MsgUnexpectedArgument) = IF node.key.argument # Null THEN 1 ELSE 0
            /\ ModifiersReported(i) = IllegalModifiers(node)
            /\ CountOf(i, MsgMissingValue) = IF node.value = Null THEN 1 ELSE 0
            /\ CountOf(i, MsgInvalidLhs) =
                  IF node.value # Null /\ ~IsTarget(node) THEN 1 ELSE 0
            /\ CountOf(i, MsgSelfAliasing) = Cardinality(AliasingReferences(node))

C8_Witness ==
    \E i \in DOMAIN nodes :
        /\ Checked(i)
        /\ nodes[i].element.name = "div"
        /\ TypeIsBound(nodes[i].element)
        /\ Len(ReportsOf(i)) = 5
        /\ ReportsOf(i)[1].message = MsgUnsupportedHost
        /\ ReportsOf(i)[2].message = MsgUnexpectedArgument
        /\ ReportsOf(i)[3].message = MsgUnsupportedModifier
        /\ ReportsOf(i)[4].message = MsgInvalidLhs
        /\ ReportsOf(i)[5].message = MsgSelfAliasing

\* The result the lookup of a name in a parent chain has to give: null when
\* no node declares the name, a variable of that name of the innermost
\* declaring node otherwise.
IsInnermost(result, name, chain) ==
    LET binding == BindingNodes(name, chain)
    IN  IF binding = {} THEN result = Null
        ELSE /\ result # Null
             /\ result.node \in binding
             /\ \A k \in binding : result.node <= k
             /\ chain[result.node].variables.list[result.index].id.name = name

\* C9: getVariable looks at the nodes of the parent chain one after the
\* other from the element outwards, returns the variable of the name of the
\* innermost node declaring it and null when no node declares it, comes to
\* an end on every chain, and leaves the chain as it is.  The operator the
\* handler uses gives the same result as the loop.
C9_GetVariable ==
    /\ [](lkPc = "done" =>
            /\ IsInnermost(lkResult, lkName, LookupChain)
            /\ lkResult = getVariable(lkName, nodes[1].element))
    /\ [][(lkPc = "loop" /\ lkPc' = "loop") => lkNode' = lkNode + 1]_vars
    /\ [][nodes' = nodes]_vars
    /\ ((lkPc = "loop") ~> (lkPc = "done"))

C9_Witness ==
    /\ lkPc = "done"
    /\ lkName = "x"
    /\ BindingNodes("x", LookupChain) = {1, 2}
    /\ FindIndex(LookupChain[1].variables.list, "x") = 2
    /\ lkResult = VariableAt(1, 2)

\* C10: whatever the order in which the bindings of a template are checked,
\* the reports of each v-model binding are those of checking it alone, and no
\* check changes an element, a binding or a parent chain.
C10_Independent ==
    /\ [](\A i \in DOMAIN nodes :
            IF Checked(i) THEN ReportsOf(i) = VModelReports(i, nodes[i])
            ELSE i \notin visited => ReportsOf(i) = <<>>)
    /\ [][nodes' = nodes]_vars

C10_Witness ==
    /\ Len(nodes) >= 2
    /\ visited = DOMAIN nodes
    /\ Checked(1) /\ Checked(2)
    /\ reports # <<>>
    /\ reports[1].node = 2
    /\ ReportsOf(1) # <<>>
    /\ \E k \in DOMAIN ReportsOf(1) : Has(2, ReportsOf(1)[k].message)

====
